---- MODULE Spec2Model ----
(***************************************************************************)
(* Model of pkg/client/attach.go: ConmonClient.AttachContainer, attach,    *)
(* setupStdioChannels, redirectResponseToOutputStreams, readStdio and      *)
(* SetWindowSizeContainer.                                                 *)
(*                                                                         *)
(* The coordinator (the goroutine running AttachContainer), the two        *)
(* goroutines started by setupStdioChannels and the resize goroutine are   *)
(* the processes.  The two completion channels are unbuffered: a goroutine *)
(* that has computed its result stays in "send" until the coordinator      *)
(* receives from its channel.                                              *)
(***************************************************************************)
EXTENDS Integers, Sequences, FiniteSets, TLC

\* ------------------------------------------------------------------ bounds
\* The peer delivers at most MaxReads packets while the socket is open.
MaxReads == 2

\* ------------------------------------------------------- program constants
attachPipeStdin == 1
attachPipeStdout == 2
attachPipeStderr == 3

\* ------------------------------------------------------------ input domains
\* First bytes a packet may carry: the three pipe tags and one unknown tag.
Tags == 0..3
\* Payloads (buf[1:nr]) the peer may send after the tag byte.
Payloads == {<<>>, <<10, 11>>}
\* What one conn.Read may leave in buf[0:nr]: nothing, or a tag and a payload.
Packets == {<<>>} \cup {<<t>> \o p : t \in Tags, p \in Payloads}
\* The error value conn.Read returns next to nr while the socket is open.
ReadErrors == {"nil", "EOF", "EIO"}
\* The result of utils.CopyDetachable.
CopyResults == {"nil", "ErrDetach", "StdinError"}
\* cfg.PreAttachFunc / cfg.PostAttachFunc: absent, returns nil, returns an error.
Hooks == {"nil", "ok", "fail"}

AttachConfigs ==
    [Passthrough : BOOLEAN, StopAfterStdinEOF : BOOLEAN,
     AttachStdin : BOOLEAN, AttachStdout : BOOLEAN, AttachStderr : BOOLEAN,
     HasStdout : BOOLEAN, HasStderr : BOOLEAN,
     PreAttachFunc : Hooks, PostAttachFunc : Hooks]

VARIABLES
    cfg,          \* the AttachConfig of the session
    pc,           \* position of the coordinator in AttachContainer/attach/readStdio
    outcome,      \* the error value AttachContainer returns ("none" until it returns)
    dialled,      \* DialLongSocket succeeded: the deferred conn.Close is registered
    closeCount,   \* number of conn.Close calls
    closeWrites,  \* number of conn.CloseWrite calls
    first,        \* which case of the select in readStdio was taken
    demuxPc,      \* goroutine running redirectResponseToOutputStreams
    demuxRes,     \* its return value
    stdinPc,      \* goroutine running CopyDetachable
    stdinRes,     \* its err
    stdinWrote,   \* the stdin goroutine has written stdin bytes to conn
    framesRead,   \* the non-empty packets conn.Read returned, in order
    nReads,       \* number of conn.Read calls that returned while the socket was open
    stdoutSink,   \* the byte slices handed to cfg.Streams.Stdout.Write, in order
    stderrSink,   \* the byte slices handed to cfg.Streams.Stderr.Write, in order
    last,         \* what the latest loop iteration tested: ew and nw of its Write
                  \* and er of its Read (see tested)
    resizing,     \* kubeutils.HandleResizing has been called
    resizeFailed  \* a resize call failed and was logged

vars ==
    <<cfg, pc, outcome, dialled, closeCount, closeWrites, first, demuxPc, demuxRes,
      stdinPc, stdinRes, stdinWrote, framesRead, nReads, stdoutSink, stderrSink,
      last, resizing, resizeFailed>>

coordVars == <<pc, outcome, dialled, closeCount, closeWrites, first>>
demuxVars == <<demuxPc, demuxRes, framesRead, nReads, stdoutSink, stderrSink, last>>
stdinVars == <<stdinPc, stdinRes, stdinWrote>>
resizeVars == <<resizing, resizeFailed>>

Init ==
    /\ cfg \in AttachConfigs
    /\ pc = "AttachContainer"
    /\ outcome = "none"
    /\ dialled = FALSE
    /\ closeCount = 0
    /\ closeWrites = 0
    /\ first = "none"
    /\ demuxPc = "idle"
    /\ demuxRes = "none"
    /\ stdinPc = "idle"
    /\ stdinRes = "none"
    /\ stdinWrote = FALSE
    /\ framesRead = <<>>
    /\ nReads = 0
    /\ stdoutSink = <<>>
    /\ stderrSink = <<>>
    /\ last = [er |-> "untested", nw |-> -1, ew |-> "none"]
    /\ resizing = FALSE
    /\ resizeFailed = FALSE

\* ------------------------------------------------------- AttachContainer
\* Variant: attach is entered before the error of the call is looked at.
AttachContainerErrorIgnored ==
    /\ pc = "AttachContainer"
    /\ \E rpcOk \in BOOLEAN :
          /\ pc' = "attach"
          /\ outcome' = IF rpcOk THEN outcome ELSE "RpcError"
    /\ UNCHANGED <<cfg, dialled, closeCount, closeWrites, first>>
    /\ UNCHANGED <<demuxVars, stdinVars, resizeVars>>

\* The control-plane call: any of newRPCConn, future.Struct and
\* result.Response may fail, and then attach is never entered.
AttachContainer ==
    /\ pc = "AttachContainer"
    /\ \E rpcOk \in BOOLEAN :
          IF rpcOk
          THEN pc' = "attach" /\ outcome' = outcome
          ELSE pc' = "done" /\ outcome' = "RpcError"
    /\ UNCHANGED <<cfg, dialled, closeCount, closeWrites, first>>
    /\ UNCHANGED <<demuxVars, stdinVars, resizeVars>>

\* ---------------------------------------------------------------- attach
\* if !cfg.Passthrough { HandleResizing; DialLongSocket; defer conn.Close }
Dial ==
    /\ pc = "attach"
    /\ IF cfg.Passthrough
       THEN pc' = "PreAttachFunc" /\ UNCHANGED <<outcome, dialled, resizing>>
       ELSE \E dialOk \in BOOLEAN :
               /\ resizing' = TRUE
               /\ dialled' = dialOk
               /\ pc' = IF dialOk THEN "PreAttachFunc" ELSE "done"
               /\ outcome' = IF dialOk THEN outcome ELSE "DialError"
    /\ UNCHANGED <<cfg, closeCount, closeWrites, first, resizeFailed>>
    /\ UNCHANGED <<demuxVars, stdinVars>>

\* Variant: conn.Close is called at the end of attach instead of being deferred,
\* so the early return after a failed hook skips it.
afterPreAttachCloseNotDeferred(c) ==
    IF c.PreAttachFunc = "fail" THEN [pc |-> "done", ret |-> "PreHookError"]
    ELSE IF c.Passthrough THEN [pc |-> "return", ret |-> "nil"]
    ELSE [pc |-> "setupStdioChannels", ret |-> "none"]

\* Variant: the Passthrough test comes before the call of cfg.PreAttachFunc.
afterPreAttachPassthroughFirst(c) ==
    IF c.Passthrough THEN [pc |-> "return", ret |-> "nil"]
    ELSE IF c.PreAttachFunc = "fail" THEN [pc |-> "return", ret |-> "PreHookError"]
    ELSE [pc |-> "setupStdioChannels", ret |-> "none"]

\* The position attach continues at after cfg.PreAttachFunc, and the value it
\* returns there: "return" is the return statement, where the deferred conn.Close
\* is still to run.
afterPreAttach(c) ==
    IF c.PreAttachFunc = "fail" THEN [pc |-> "return", ret |-> "PreHookError"]
    ELSE IF c.Passthrough THEN [pc |-> "return", ret |-> "nil"]
    ELSE [pc |-> "setupStdioChannels", ret |-> "none"]

PreAttach ==
    /\ pc = "PreAttachFunc"
    /\ pc' = afterPreAttach(cfg).pc
    /\ outcome' = afterPreAttach(cfg).ret
    /\ UNCHANGED <<cfg, dialled, closeCount, closeWrites, first>>
    /\ UNCHANGED <<demuxVars, stdinVars, resizeVars>>

\* setupStdioChannels: both goroutines are started; neither has run yet.
SetupStdioChannels ==
    /\ pc = "setupStdioChannels"
    /\ demuxPc' = "read"
    /\ stdinPc' = "copy"
    /\ pc' = "PostAttachFunc"
    /\ UNCHANGED <<cfg, outcome, dialled, closeCount, closeWrites, first>>
    /\ UNCHANGED <<demuxRes, framesRead, nReads, stdoutSink, stderrSink, last>>
    /\ UNCHANGED <<stdinRes, stdinWrote, resizeVars>>

\* Variant: the error of cfg.PostAttachFunc is dropped.
afterPostAttachErrorDropped(c) ==
    [pc |-> "readStdio", ret |-> "none"]

afterPostAttach(c) ==
    IF c.PostAttachFunc = "fail" THEN [pc |-> "return", ret |-> "PostHookError"]
    ELSE [pc |-> "readStdio", ret |-> "none"]

PostAttach ==
    /\ pc = "PostAttachFunc"
    /\ pc' = afterPostAttach(cfg).pc
    /\ outcome' = afterPostAttach(cfg).ret
    /\ UNCHANGED <<cfg, dialled, closeCount, closeWrites, first>>
    /\ UNCHANGED <<demuxVars, stdinVars, resizeVars>>

\* The deferred function of attach: conn.Close runs iff the defer was registered.
deferredCloses(registered) == IF registered THEN 1 ELSE 0

Return ==
    /\ pc = "return"
    /\ closeCount' = closeCount + deferredCloses(dialled)
    /\ pc' = "done"
    /\ UNCHANGED <<cfg, outcome, dialled, closeWrites, first>>
    /\ UNCHANGED <<demuxVars, stdinVars, resizeVars>>

\* -------------------------------------------------------------- readStdio
\* Variant: the stdout case returns without conn.CloseWrite.
stdoutCaseNoCloseWrite(err) ==
    [closeWrite |-> FALSE, wait |-> FALSE, ret |-> err]

\* case err = <-receiveStdoutError: conn.CloseWrite(); return err
stdoutCase(err) ==
    [closeWrite |-> TRUE, wait |-> FALSE, ret |-> err]

\* Variant: the ErrDetach test is missing.
stdinCaseNoDetach(c, err) ==
    IF c.StopAfterStdinEOF
    THEN [closeWrite |-> FALSE, wait |-> FALSE, ret |-> "nil"]
    ELSE [closeWrite |-> (err = "nil"),
          wait |-> (c.AttachStdout \/ c.AttachStderr),
          ret |-> "nil"]

\* Variant: StopAfterStdinEOF is tested after the ErrDetach test.
stdinCaseStopTestedLate(c, err) ==
    IF err = "ErrDetach"
    THEN [closeWrite |-> TRUE, wait |-> FALSE, ret |-> err]
    ELSE IF c.StopAfterStdinEOF
    THEN [closeWrite |-> FALSE, wait |-> FALSE, ret |-> "nil"]
    ELSE [closeWrite |-> (err = "nil"),
          wait |-> (c.AttachStdout \/ c.AttachStderr),
          ret |-> "nil"]

\* Variant: the detach branch returns without conn.CloseWrite.
stdinCaseDetachNoCloseWrite(c, err) ==
    IF c.StopAfterStdinEOF
    THEN [closeWrite |-> FALSE, wait |-> FALSE, ret |-> "nil"]
    ELSE IF err = "ErrDetach"
    THEN [closeWrite |-> FALSE, wait |-> FALSE, ret |-> err]
    ELSE [closeWrite |-> (err = "nil"),
          wait |-> (c.AttachStdout \/ c.AttachStderr),
          ret |-> "nil"]

\* Variant: the coordinator waits for the output goroutine whatever the
\* AttachStdout/AttachStderr flags are.
stdinCaseAlwaysWait(c, err) ==
    IF c.StopAfterStdinEOF
    THEN [closeWrite |-> FALSE, wait |-> FALSE, ret |-> "nil"]
    ELSE IF err = "ErrDetach"
    THEN [closeWrite |-> TRUE, wait |-> FALSE, ret |-> err]
    ELSE [closeWrite |-> (err = "nil"), wait |-> TRUE, ret |-> "nil"]

\* Variant: the coordinator never waits for the output goroutine.
stdinCaseNeverWait(c, err) ==
    IF c.StopAfterStdinEOF
    THEN [closeWrite |-> FALSE, wait |-> FALSE, ret |-> "nil"]
    ELSE IF err = "ErrDetach"
    THEN [closeWrite |-> TRUE, wait |-> FALSE, ret |-> err]
    ELSE [closeWrite |-> (err = "nil"), wait |-> FALSE, ret |-> "nil"]

\* case err = <-stdinDone: what the coordinator does with the stdin result.
\* wait: it goes on to receive from receiveStdoutError and returns that value.
stdinCase(c, err) ==
    IF c.StopAfterStdinEOF
    THEN [closeWrite |-> FALSE, wait |-> FALSE, ret |-> "nil"]
    ELSE IF err = "ErrDetach"
    THEN [closeWrite |-> TRUE, wait |-> FALSE, ret |-> err]
    ELSE [closeWrite |-> (err = "nil"),
          wait |-> (c.AttachStdout \/ c.AttachStderr),
          ret |-> "nil"]

\* The coordinator acts on the chosen case of the select.
Resolve(r) ==
    /\ closeWrites' = closeWrites + (IF r.closeWrite THEN 1 ELSE 0)
    /\ pc' = IF r.wait THEN "waitStdout" ELSE "return"
    /\ outcome' = IF r.wait THEN outcome ELSE r.ret

SelectStdout ==
    /\ pc = "readStdio"
    /\ demuxPc = "send"
    /\ demuxPc' = "done"
    /\ first' = "stdout"
    /\ Resolve(stdoutCase(demuxRes))
    /\ UNCHANGED <<cfg, dialled, closeCount>>
    /\ UNCHANGED <<demuxRes, framesRead, nReads, stdoutSink, stderrSink, last>>
    /\ UNCHANGED <<stdinVars, resizeVars>>

SelectStdin ==
    /\ pc = "readStdio"
    /\ stdinPc = "send"
    /\ stdinPc' = "done"
    /\ first' = "stdin"
    /\ Resolve(stdinCase(cfg, stdinRes))
    /\ UNCHANGED <<cfg, dialled, closeCount>>
    /\ UNCHANGED <<demuxVars, stdinRes, stdinWrote, resizeVars>>

\* return <-receiveStdoutError
WaitStdout ==
    /\ pc = "waitStdout"
    /\ demuxPc = "send"
    /\ demuxPc' = "done"
    /\ outcome' = demuxRes
    /\ pc' = "return"
    /\ UNCHANGED <<cfg, dialled, closeCount, closeWrites, first>>
    /\ UNCHANGED <<demuxRes, framesRead, nReads, stdoutSink, stderrSink, last>>
    /\ UNCHANGED <<stdinVars, resizeVars>>

\* ---------------------------------------- redirectResponseToOutputStreams
\* buf[1:nr]
Payload(buf) == SubSeq(buf, 2, Len(buf))

\* Variant: dst starts as the stdout stream, so an unknown tag is dropped silently.
routeUnknownDropped(c, tag) ==
    IF tag = attachPipeStdout
    THEN [dst |-> IF c.HasStdout THEN "Stdout" ELSE "nil", doWrite |-> c.AttachStdout]
    ELSE IF tag = attachPipeStderr
    THEN [dst |-> IF c.HasStderr THEN "Stderr" ELSE "nil", doWrite |-> c.AttachStderr]
    ELSE [dst |-> "Stdout", doWrite |-> FALSE]

\* Variant: the two destinations are swapped.
routeSwapped(c, tag) ==
    IF tag = attachPipeStdout
    THEN [dst |-> IF c.HasStderr THEN "Stderr" ELSE "nil", doWrite |-> c.AttachStdout]
    ELSE IF tag = attachPipeStderr
    THEN [dst |-> IF c.HasStdout THEN "Stdout" ELSE "nil", doWrite |-> c.AttachStderr]
    ELSE [dst |-> "nil", doWrite |-> FALSE]

\* The switch on buf[0]: dst is "nil" when the tag is unknown or the
\* configured stream is a nil io.WriteCloser.
route(c, tag) ==
    IF tag = attachPipeStdout
    THEN [dst |-> IF c.HasStdout THEN "Stdout" ELSE "nil", doWrite |-> c.AttachStdout]
    ELSE IF tag = attachPipeStderr
    THEN [dst |-> IF c.HasStderr THEN "Stderr" ELSE "nil", doWrite |-> c.AttachStderr]
    ELSE [dst |-> "nil", doWrite |-> FALSE]

\* Variant: io.EOF is returned like any other read error.
redirectIterationEOFAsError(c, buf, er, nw, ew) ==
    LET nr == Len(buf)
        r == route(c, buf[1])
    IN  IF nr > 0 /\ r.dst = "nil"
        THEN [wrote |-> "nil", stop |-> TRUE, err |-> "ErrNilDst"]
        ELSE IF nr > 0 /\ r.doWrite /\ ew # "nil"
        THEN [wrote |-> r.dst, stop |-> TRUE, err |-> ew]
        ELSE IF nr > 0 /\ r.doWrite /\ nr # nw + 1
        THEN [wrote |-> r.dst, stop |-> TRUE, err |-> "ErrShortWrite"]
        ELSE [wrote |-> IF nr > 0 /\ r.doWrite THEN r.dst ELSE "nil",
              stop |-> (er # "nil"),
              err |-> er]

\* Variant: the count returned by Write is not compared with the payload length.
redirectIterationNoShortWriteTest(c, buf, er, nw, ew) ==
    LET nr == Len(buf)
        r == route(c, buf[1])
    IN  IF nr > 0 /\ r.dst = "nil"
        THEN [wrote |-> "nil", stop |-> TRUE, err |-> "ErrNilDst"]
        ELSE IF nr > 0 /\ r.doWrite /\ ew # "nil"
        THEN [wrote |-> r.dst, stop |-> TRUE, err |-> ew]
        ELSE [wrote |-> IF nr > 0 /\ r.doWrite THEN r.dst ELSE "nil",
              stop |-> (er # "nil"),
              err |-> IF er = "EOF" THEN "nil" ELSE er]

\* One iteration of the for loop on the result (buf[0:nr], er) of conn.Read,
\* where dst.Write, if called, returns (nw, ew).
\* wrote: the stream Write was called on; stop: the loop is left; err: the
\* value returned then.
redirectIteration(c, buf, er, nw, ew) ==
    LET nr == Len(buf)
        r == route(c, buf[1])
    IN  IF nr > 0 /\ r.dst = "nil"
        THEN [wrote |-> "nil", stop |-> TRUE, err |-> "ErrNilDst"]
        ELSE IF nr > 0 /\ r.doWrite /\ ew # "nil"
        THEN [wrote |-> r.dst, stop |-> TRUE, err |-> ew]
        ELSE IF nr > 0 /\ r.doWrite /\ nr # nw + 1
        THEN [wrote |-> r.dst, stop |-> TRUE, err |-> "ErrShortWrite"]
        ELSE [wrote |-> IF nr > 0 /\ r.doWrite THEN r.dst ELSE "nil",
              stop |-> (er # "nil"),
              err |-> IF er = "EOF" THEN "nil" ELSE er]

\* Write is called in this iteration.
Writes(c, buf) == Len(buf) > 0 /\ route(c, buf[1]).dst # "nil" /\ route(c, buf[1]).doWrite

\* The values one iteration looks at: ew if Write is called ("none" if not),
\* nw if ew is nil (-1 if nw is not looked at), and er if the iteration gets
\* as far as the tests after the delivery ("untested" if it leaves before).
tested(c, buf, er, nw, ew) ==
    LET w == Writes(c, buf)
        early == \/ Len(buf) > 0 /\ route(c, buf[1]).dst = "nil"
                 \/ w /\ ew # "nil"
                 \/ w /\ Len(buf) # nw + 1
    IN  [er |-> IF early THEN "untested" ELSE er,
         nw |-> IF w /\ ew = "nil" THEN nw ELSE -1,
         ew |-> IF w THEN ew ELSE "none"]

\* The goroutine applies one iteration to a Read result.
DemuxApply(buf, it) ==
    /\ framesRead' = IF Len(buf) > 0 THEN Append(framesRead, buf) ELSE framesRead
    /\ stdoutSink' = IF it.wrote = "Stdout" THEN Append(stdoutSink, Payload(buf))
                     ELSE stdoutSink
    /\ stderrSink' = IF it.wrote = "Stderr" THEN Append(stderrSink, Payload(buf))
                     ELSE stderrSink
    /\ demuxPc' = IF it.stop THEN "send" ELSE "read"
    /\ demuxRes' = IF it.stop THEN it.err ELSE demuxRes

\* conn.Read returns while the socket is open: the peer decides what it returns.
DemuxRead ==
    /\ demuxPc = "read"
    /\ closeCount = 0
    /\ nReads < MaxReads
    /\ nReads' = nReads + 1
    /\ \E buf \in Packets, er \in ReadErrors :
          \E nw \in 0..Len(Payload(buf)), ew \in {"nil", "SinkError"} :
             /\ Writes(cfg, buf) \/ (nw = 0 /\ ew = "nil")
             /\ DemuxApply(buf, redirectIteration(cfg, buf, er, nw, ew))
             /\ last' = tested(cfg, buf, er, nw, ew)
    /\ UNCHANGED <<cfg, coordVars, stdinVars, resizeVars>>

\* conn.Read after the coordinator's conn.Close: it fails with no bytes.
DemuxReadClosed ==
    /\ demuxPc = "read"
    /\ closeCount > 0
    /\ DemuxApply(<<>>, redirectIteration(cfg, <<>>, "ErrClosed", 0, "nil"))
    /\ last' = tested(cfg, <<>>, "ErrClosed", 0, "nil")
    /\ UNCHANGED <<cfg, nReads, coordVars, stdinVars, resizeVars>>

\* ------------------------------------------------ the stdin goroutine
\* CopyDetachable writes stdin bytes to conn while its write side is open.
StdinCopy ==
    /\ stdinPc = "copy"
    /\ cfg.AttachStdin
    /\ closeCount = 0
    /\ closeWrites = 0
    /\ ~stdinWrote
    /\ stdinWrote' = TRUE
    /\ UNCHANGED <<cfg, coordVars, demuxVars, stdinPc, stdinRes, resizeVars>>

\* var err error; if cfg.Streams.AttachStdin { _, err = CopyDetachable(...) }
stdinResults(c) == IF c.AttachStdin THEN CopyResults ELSE {"nil"}

StdinDone ==
    /\ stdinPc = "copy"
    /\ \E err \in stdinResults(cfg) : stdinRes' = err
    /\ stdinPc' = "send"
    /\ UNCHANGED <<cfg, coordVars, demuxVars, stdinWrote, resizeVars>>

\* ------------------------------------------------- SetWindowSizeContainer
SetWindowSizeContainer(sizeIsNil, rpcOk) ==
    IF sizeIsNil THEN "SizeNilError"
    ELSE IF rpcOk THEN "nil"
    ELSE "RpcError"

\* Variant: a failed resize call ends the session with its error.
ResizeEventFatal ==
    /\ resizing
    /\ \E rpcOk \in BOOLEAN :
          /\ resizeFailed' = (resizeFailed \/ SetWindowSizeContainer(FALSE, rpcOk) # "nil")
          /\ pc' = IF rpcOk THEN pc ELSE "done"
          /\ outcome' = IF rpcOk THEN outcome ELSE "RpcError"
    /\ UNCHANGED <<cfg, dialled, closeCount, closeWrites, first>>
    /\ UNCHANGED <<demuxVars, stdinVars, resizing>>

\* The callback given to HandleResizing: a failed call is only logged.
ResizeEvent ==
    /\ resizing
    /\ \E rpcOk \in BOOLEAN :
          resizeFailed' = (resizeFailed \/ SetWindowSizeContainer(FALSE, rpcOk) # "nil")
    /\ UNCHANGED <<cfg, coordVars, demuxVars, stdinVars, resizing>>

Next ==
    \/ AttachContainer
    \/ Dial
    \/ PreAttach
    \/ SetupStdioChannels
    \/ PostAttach
    \/ SelectStdout
    \/ SelectStdin
    \/ WaitStdout
    \/ Return
    \/ DemuxRead
    \/ DemuxReadClosed
    \/ StdinCopy
    \/ StdinDone
    \/ ResizeEvent

Spec == Init /\ [][Next]_vars

\* ================================================================ claims
\* The coordinator has left readStdio: it is at its return statement or has returned.
Returning == pc \in {"return", "done"}

HookErrors == {"PreHookError", "PostHookError"}

\* The payloads of the frames of `frames` that carry `tag`, in order.
RECURSIVE PayloadsFor(_, _)
PayloadsFor(tag, frames) ==
    IF frames = <<>> THEN <<>>
    ELSE IF Head(frames)[1] = tag
    THEN <<Payload(Head(frames))>> \o PayloadsFor(tag, Tail(frames))
    ELSE PayloadsFor(tag, Tail(frames))

\* C1: whenever the socket was dialled, conn.Close has been called exactly
\* once by the time attach has returned, whatever path it returned on; it is
\* never called twice, and never without a dialled socket.
C1_ClosedOnceOnReturn ==
    /\ (dialled /\ pc = "done") => closeCount = 1
    /\ closeCount <= 1
    /\ ~dialled => closeCount = 0

C1_Witness ==
    /\ pc = "done" /\ dialled /\ closeCount = 1
    /\ first = "stdin" /\ stdinRes = "StdinError" /\ ~cfg.StopAfterStdinEOF

\* C2: when the stdin result is received first, is a non-detach error and
\* StopAfterStdinEOF is unset, readStdio returns that error.
C2_StdinErrorPropagated ==
    (Returning /\ first = "stdin" /\ stdinRes = "StdinError" /\ ~cfg.StopAfterStdinEOF)
        => outcome = "StdinError"

\* C3 as stated: whenever the stdin goroutine completed with ErrDetach and
\* readStdio has returned, the session outcome is ErrDetach.
C3_DetachAlwaysReturned ==
    (pc = "done" /\ first # "none" /\ stdinRes = "ErrDetach") => outcome = "ErrDetach"

\* C3 as amended: when the stdin goroutine completed with ErrDetach, the
\* session returns ErrDetach if that completion is the one the select received
\* and StopAfterStdinEOF is unset, nil if it is received with StopAfterStdinEOF
\* set, and the output goroutine's result if that one was received first.
C3_DetachOutcome ==
    (pc = "done" /\ first # "none" /\ stdinRes = "ErrDetach") =>
        outcome = (IF first = "stdout" THEN demuxRes
                   ELSE IF cfg.StopAfterStdinEOF THEN "nil"
                   ELSE "ErrDetach")

C3_Witness ==
    /\ pc = "done" /\ first = "stdin" /\ stdinRes = "ErrDetach"
    /\ ~cfg.StopAfterStdinEOF /\ outcome = "ErrDetach"
    /\ demuxPc = "send" /\ demuxRes = "EIO"

\* C4: when the select receives the output goroutine's result first, the
\* coordinator calls conn.CloseWrite once, returns exactly that result and
\* never receives from stdinDone.
C4_StdoutFirst ==
    first = "stdout" =>
        /\ Returning
        /\ closeWrites = 1
        /\ outcome = demuxRes
        /\ demuxPc = "done"
        /\ stdinPc # "done"

C4_Witness ==
    /\ first = "stdout" /\ pc = "done" /\ outcome = "EIO"
    /\ stdinPc = "send" /\ stdinRes = "ErrDetach"

C6_DetachFirst ==
    (first = "stdin" /\ stdinRes = "ErrDetach" /\ ~cfg.StopAfterStdinEOF) =>
        /\ Returning
        /\ closeWrites = 1
        /\ outcome = "ErrDetach"
        /\ demuxPc # "done"

C6_Witness ==
    /\ first = "stdin" /\ stdinRes = "ErrDetach" /\ ~cfg.StopAfterStdinEOF
    /\ cfg.AttachStdout /\ cfg.AttachStderr
    /\ pc = "done" /\ closeWrites = 1 /\ demuxPc = "read"

\* C7: when the select receives nil from stdinDone first and
\* StopAfterStdinEOF is unset, the coordinator calls conn.CloseWrite; with
\* AttachStdout or AttachStderr set it then waits for the output goroutine and
\* returns its result, otherwise it returns nil without receiving from
\* receiveStdoutError, whatever the output goroutine returns.
C7_StdinCleanFirst ==
    (first = "stdin" /\ stdinRes = "nil" /\ ~cfg.StopAfterStdinEOF) =>
        /\ closeWrites = 1
        /\ IF cfg.AttachStdout \/ cfg.AttachStderr
           THEN \/ pc = "waitStdout" /\ demuxPc # "done" /\ outcome = "none"
                \/ Returning /\ demuxPc = "done" /\ outcome = demuxRes
           ELSE Returning /\ outcome = "nil" /\ demuxPc # "done"

C7_Witness ==
    /\ first = "stdin" /\ stdinRes = "nil" /\ ~cfg.StopAfterStdinEOF
    /\ ~cfg.AttachStdout /\ ~cfg.AttachStderr
    /\ pc = "done" /\ outcome = "nil"
    /\ demuxPc = "send" /\ demuxRes = "EIO" /\ closeCount = 1

\* C8 as stated: once a hook has failed, neither goroutine has been started,
\* no stdin byte has been written to conn and nothing has been written to a
\* sink.
C8_NoTaskAtHookFailure ==
    outcome \in HookErrors =>
        /\ demuxPc = "idle" /\ stdinPc = "idle"
        /\ ~stdinWrote
        /\ stdoutSink = <<>> /\ stderrSink = <<>>

\* The session got as far as calling cfg.PreAttachFunc.
ReachedPreAttach == pc = "done" /\ outcome \notin {"RpcError", "DialError"}

\* C8 as amended: a failing hook ends the session with the hook's own error.
\* When the pre-attach hook fails, neither goroutine has been started, no stdin
\* byte has been written and no sink has been written to.  The post-attach hook
\* runs after setupStdioChannels: when it fails both goroutines have been
\* started, and readStdio is never entered.
C8_HookAbort ==
    /\ (ReachedPreAttach /\ cfg.PreAttachFunc = "fail") => outcome = "PreHookError"
    /\ (ReachedPreAttach /\ cfg.PreAttachFunc # "fail" /\ ~cfg.Passthrough
            /\ cfg.PostAttachFunc = "fail") => outcome = "PostHookError"
    /\ outcome = "PreHookError" =>
          /\ demuxPc = "idle" /\ stdinPc = "idle"
          /\ ~stdinWrote
          /\ stdoutSink = <<>> /\ stderrSink = <<>>
    /\ outcome = "PostHookError" =>
          /\ demuxPc \in {"read", "send"} /\ stdinPc \in {"copy", "send"}
          /\ first = "none"

C8_Witness ==
    /\ pc = "return" /\ outcome = "PostHookError"
    /\ stdinWrote /\ stdoutSink = <<<<10, 11>>>>

\* C9: a frame whose tag is neither attachPipeStdout nor attachPipeStderr is
\* the last frame read: the output goroutine has left the loop with the
\* "output destination cannot be nil" error, whatever the deliver flags are,
\* and nothing of the frame went to a sink.
C9_UnroutableTag ==
    \A i \in 1..Len(framesRead) :
        framesRead[i][1] \notin {attachPipeStdout, attachPipeStderr} =>
            /\ i = Len(framesRead)
            /\ demuxPc \in {"send", "done"}
            /\ demuxRes = "ErrNilDst"
            /\ Len(stdoutSink) <= Len(PayloadsFor(attachPipeStdout, framesRead))
            /\ Len(stderrSink) <= Len(PayloadsFor(attachPipeStderr, framesRead))

C9_Witness ==
    /\ Len(framesRead) = 2
    /\ framesRead[1] = <<attachPipeStdout, 10, 11>>
    /\ framesRead[2] = <<attachPipeStdin, 10, 11>>
    /\ cfg.AttachStdout /\ cfg.AttachStderr
    /\ stdoutSink = <<<<10, 11>>>> /\ stderrSink = <<>>
    /\ demuxRes = "ErrNilDst"

\* A frame for a stream whose deliver flag is false ended the loop with an error.
DisabledFrameStopped(tag, deliver) ==
    /\ ~deliver
    /\ framesRead # <<>>
    /\ framesRead[Len(framesRead)][1] = tag
    /\ demuxPc \in {"send", "done"}
    /\ demuxRes = "ErrNilDst"

\* C10: a sink whose deliver flag is false is never written to, and a frame
\* for it does not end the loop; a sink whose deliver flag is true has been
\* handed exactly the payloads of its frames, in arrival order.
C10_Delivery ==
    /\ ~cfg.AttachStdout => stdoutSink = <<>>
    /\ ~cfg.AttachStderr => stderrSink = <<>>
    /\ ~DisabledFrameStopped(attachPipeStdout, cfg.AttachStdout)
    /\ ~DisabledFrameStopped(attachPipeStderr, cfg.AttachStderr)
    /\ (cfg.AttachStdout /\ cfg.HasStdout) =>
          stdoutSink = PayloadsFor(attachPipeStdout, framesRead)
    /\ (cfg.AttachStderr /\ cfg.HasStderr) =>
          stderrSink = PayloadsFor(attachPipeStderr, framesRead)

\* The output goroutine has left its loop.
Terminated == demuxPc \in {"send", "done"}

\* The session of C11 so far: stdin is forwarded and has not ended with a
\* detach or an error, stdout is delivered to a writer, StopAfterStdinEOF is
\* unset, the peer has sent only STDOUT frames and the output goroutine has
\* met no error.
StdoutOnlySession ==
    /\ cfg.AttachStdin /\ cfg.AttachStdout /\ cfg.HasStdout /\ ~cfg.StopAfterStdinEOF
    /\ stdinRes \in {"none", "nil"}
    /\ demuxRes \in {"none", "nil"}
    /\ \A i \in 1..Len(framesRead) : framesRead[i][1] = attachPipeStdout

\* C11: in such a session readStdio returns only after the output goroutine
\* has read the peer's EOF and its result has been received: the stdout sink
\* then holds exactly the payloads of all frames, in order, and the outcome is
\* nil, whichever signal the select received first.
C11_EndToEnd ==
    (Returning /\ first # "none" /\ StdoutOnlySession) =>
        /\ demuxPc = "done"
        /\ last.er = "EOF"
        /\ outcome = "nil"
        /\ stdoutSink = PayloadsFor(attachPipeStdout, framesRead)

C11_Witness ==
    /\ pc = "done" /\ first = "stdin" /\ StdoutOnlySession
    /\ stdinRes = "nil" /\ stdinWrote
    /\ framesRead = <<<<attachPipeStdout, 10, 11>>, <<attachPipeStdout>>>>
    /\ stdoutSink = <<<<10, 11>>, <<>>>>
    /\ outcome = "nil"

\* C12: when the er tested after the delivery is io.EOF the output goroutine
\* has left the loop with nil, and the bytes of every read, the last one
\* included, are in the enabled sinks; when it is another error the goroutine
\* has left the loop with that error.
C12_ReadEnd ==
    /\ last.er = "EOF" =>
          /\ Terminated /\ demuxRes = "nil"
          /\ cfg.AttachStdout => stdoutSink = PayloadsFor(attachPipeStdout, framesRead)
          /\ cfg.AttachStderr => stderrSink = PayloadsFor(attachPipeStderr, framesRead)
    /\ last.er \notin {"nil", "EOF", "untested"} =>
          Terminated /\ demuxRes = last.er

C12_Witness ==
    /\ last.er = "EOF" /\ nReads = 1 /\ demuxPc = "send" /\ demuxRes = "nil"
    /\ framesRead = <<<<attachPipeStderr, 10, 11>>>>
    /\ stderrSink = <<<<10, 11>>>>

\* C13: when Write on an enabled sink returns no error and a count below the
\* payload length, the output goroutine has left the loop with ErrShortWrite.
C13_ShortWrite ==
    (last.ew = "nil" /\ last.nw >= 0
        /\ last.nw < Len(Payload(framesRead[Len(framesRead)]))) =>
            Terminated /\ demuxRes = "ErrShortWrite"

C13_Witness ==
    /\ last.ew = "nil" /\ last.nw = 1 /\ nReads = 1
    /\ framesRead = <<<<attachPipeStdout, 10, 11>>>>
    /\ demuxPc = "send" /\ demuxRes = "ErrShortWrite"

\* C14: a passthrough session never dials, never starts a goroutine and never
\* closes anything; once the control-plane call has succeeded it returns the
\* error of cfg.PreAttachFunc if that hook fails and nil otherwise.
C14_Passthrough ==
    cfg.Passthrough =>
        /\ ~dialled /\ closeCount = 0 /\ closeWrites = 0
        /\ demuxPc = "idle" /\ stdinPc = "idle"
        /\ (pc = "done" /\ outcome # "RpcError") =>
              outcome = (IF cfg.PreAttachFunc = "fail" THEN "PreHookError" ELSE "nil")

C14_Witness ==
    /\ cfg.Passthrough /\ pc = "done" /\ outcome = "PreHookError"

\* C15: a step in which a resize call fails changes nothing of the
\* coordinator, the output goroutine or the stdin goroutine, and after a
\* failure the next resize event can still be handled.
C15_ResizeFailureOnlyLogged ==
    /\ [][(resizeFailed' # resizeFailed) =>
            UNCHANGED <<cfg, coordVars, demuxVars, stdinVars>>]_vars
    /\ [](resizeFailed => ENABLED ResizeEvent)

C15_Witness ==
    /\ resizeFailed /\ pc = "done" /\ outcome = "nil"
    /\ first = "stdout" /\ stdoutSink = <<<<10, 11>>>>

\* C16: when the control-plane call fails the session has ended with its
\* error, nothing was dialled and no goroutine was started; the socket is
\* dialled and the goroutines run only after the call.
C16_AttachAcknowledgedFirst ==
    /\ outcome = "RpcError" =>
          /\ pc = "done"
          /\ ~dialled /\ closeCount = 0
          /\ demuxPc = "idle" /\ stdinPc = "idle"
    /\ (dialled \/ demuxPc # "idle" \/ stdinPc # "idle") => pc # "AttachContainer"

C16_Witness ==
    /\ outcome = "RpcError" /\ pc = "done"
    /\ ~cfg.Passthrough /\ cfg.PreAttachFunc = "fail"

\* C17: with AttachStdin unset, StopAfterStdinEOF set and a deliver flag set,
\* a coordinator that received the stdin signal first returns only after
\* receiving the output goroutine's result, and returns that result.
C17_StopOnlyWithStdin ==
    (Returning /\ first = "stdin" /\ ~cfg.AttachStdin /\ cfg.StopAfterStdinEOF
        /\ (cfg.AttachStdout \/ cfg.AttachStderr)) =>
            demuxPc = "done" /\ outcome = demuxRes

\* C18 as stated: once conn.Close has been called, neither goroutine still has
\* a read or a write on conn ahead of it.
C18_ClosedAfterBothCeased ==
    closeCount > 0 => (demuxPc # "read" /\ stdinPc # "copy")

\* C18 as amended: conn.Close is called once, when attach returns.  The
\* goroutine whose completion signal the coordinator received has ceased
\* activity by then, and so has the output goroutine when the coordinator
\* waited for it after a stdin result; any other goroutine may still be
\* reading or writing and is stopped by the close.
C18_ClosedAtReturn ==
    closeCount > 0 =>
        /\ pc = "done"
        /\ first = "stdout" => demuxPc = "done"
        /\ first = "stdin" => stdinPc = "done"
        /\ (first = "stdin" /\ ~cfg.StopAfterStdinEOF /\ stdinRes # "ErrDetach"
                /\ (cfg.AttachStdout \/ cfg.AttachStderr)) => demuxPc = "done"

C18_Witness ==
    /\ closeCount = 1 /\ first = "stdin" /\ stdinRes = "ErrDetach"
    /\ ~cfg.StopAfterStdinEOF /\ demuxPc = "read" /\ nReads = 1

\* C19: once the stdin signal has been received first with StopAfterStdinEOF
\* unset, conn.CloseWrite has been called, whatever the stdin result is.
C19_HalfCloseOnStdinFirst ==
    (first = "stdin" /\ ~cfg.StopAfterStdinEOF) => closeWrites = 1

\* C20: after attach has returned no goroutine is left sending its
\* completion signal: nothing receives from either channel any more, so a
\* goroutine in "send" then stays there forever.
C20_NoTaskBlockedOnSend ==
    pc = "done" => (demuxPc # "send" /\ stdinPc # "send")

====
